---- MODULE Spec2Model ----
(***************************************************************************)
(* A model of parser/src/ast.rs of rust-mf2-parser: the MessageFormat 2    *)
(* node catalog, the span() derivation of every node, the decomposition of *)
(* a Number literal into its parts, and the apply_visitor /                *)
(* apply_visitor_to_children dispatch of every node.                       *)
(*                                                                         *)
(* A node is a record with a "type" field naming its struct or enum.  A    *)
(* &str is a sequence of one-character strings, an Option is a sequence of *)
(* length 0 (None) or 1 (Some), a Vec is a sequence, a Span is a record    *)
(* [start, end] of Location offsets.                                       *)
(***************************************************************************)
EXTENDS Integers, Sequences, FiniteSets, TLC

\* ------------------------------------------------------------------------
\* Bounds of the model.

\* Start offsets of a message or a number literal: 0..MaxPos.
MaxPos == 2
\* Longest list of pattern parts.
MaxParts == 2
\* Longest list of digits in one part of a number.
MaxDigits == 2
\* How many callbacks of one traversal may return without visiting children.
MaxSkips == 1

\* ------------------------------------------------------------------------
\* util::Location and util::Span (crate::util is not part of src/; modelled
\* from the specification's section 6: "advance by" a character, a string or
\* a length gives the position immediately past it).

None == <<>>

Some(x) == <<x>>

\* The sentinel of Location::dummy(): an offset no source text has.
DummyInner == -1

\* Characters that take more than one byte of the source (a char is a
\* one-character string; these two are named by their code point).
WideChars == {"U+00E9", "U+20AC"}

\* The width of a character in the unit of a Location, which is a byte
\* offset into the source (Number::slice indexes a &str with it): every
\* character of the grammar's own syntax is one byte wide.
CharLen(c) ==
  CASE c = "U+00E9" -> 2
    [] c = "U+20AC" -> 3
    [] OTHER -> 1

RECURSIVE StrLen(_)
StrLen(s) == IF s = <<>> THEN 0 ELSE CharLen(Head(s)) + StrLen(Tail(s))

LocAddChar(loc, c) == loc + CharLen(c)

LocAddStr(loc, s) == loc + StrLen(s)

LocAddLen(loc, len) == loc + len

LocMin(a, b) == IF a <= b THEN a ELSE b

LocMax(a, b) == IF a >= b THEN a ELSE b

SpanNew(s, e) == [start |-> s, end |-> e]

Last(s) == s[Len(s)]

\* ------------------------------------------------------------------------
\* The enums the ast_enum! macro generates, and Message.

WrapperTypes ==
  {"PatternPart", "Expression", "Annotation", "LiteralOrVariable",
   "ReservedBodyPart", "Literal", "QuotedPart", "ComplexMessageBody",
   "Declaration", "Key"}

\* ------------------------------------------------------------------------
\* impl Spanned: span() of every node.

\* A slip: the backslash is left out of the span.
EscapeSpanWithoutBackslash(n) ==
  SpanNew(n.start, LocAddChar(n.start, n.escaped_char))

EscapeSpan(n) ==
  SpanNew(n.start, LocAddChar(LocAddChar(n.start, "\\"), n.escaped_char))

IdentifierSpan(n) ==
  LET e0 == n.start
      e1 == IF n.namespace # None
            THEN LocAddChar(LocAddStr(e0, n.namespace[1]), ":")
            ELSE e0
  IN SpanNew(n.start, LocAddStr(e1, n.name))

RECURSIVE SpanOf(_)

PatternSpan(n) ==
  IF n.parts # <<>>
  THEN SpanNew(SpanOf(n.parts[1]).start, SpanOf(Last(n.parts)).end)
  ELSE SpanNew(DummyInner, DummyInner)

\* A slip: the options are left out of the span.
FunctionSpanWithoutOptions(n) == SpanNew(n.start, SpanOf(n.id).end)

FunctionSpan(n) ==
  SpanNew(n.start,
          IF n.options # <<>> THEN SpanOf(Last(n.options)).end
          ELSE SpanOf(n.id).end)

FnOrMarkupOptionSpan(n) == SpanNew(SpanOf(n.key).start, SpanOf(n.value).end)

\* PrivateUseAnnotation and ReservedAnnotation have the same span().
SigilAnnotationSpan(n) ==
  SpanNew(n.start,
          IF n.body # <<>> THEN SpanOf(Last(n.body)).end
          ELSE LocAddChar(n.start, n.sigil))

\* A slip: min and max the wrong way round.
ComplexMessageSpanMaxMin(n) ==
  LET b == SpanOf(n.body)
      s == IF n.declarations # <<>>
           THEN LocMax(SpanOf(n.declarations[1]).start, b.start)
           ELSE b.start
      e == IF n.declarations # <<>>
           THEN LocMin(SpanOf(Last(n.declarations)).end, b.end)
           ELSE b.end
  IN SpanNew(s, e)

ComplexMessageSpan(n) ==
  LET b == SpanOf(n.body)
      s == IF n.declarations # <<>>
           THEN LocMin(SpanOf(n.declarations[1]).start, b.start)
           ELSE b.start
      e == IF n.declarations # <<>>
           THEN LocMax(SpanOf(Last(n.declarations)).end, b.end)
           ELSE b.end
  IN SpanNew(s, e)

InputDeclarationSpan(n) == SpanNew(n.start, SpanOf(n.expression).end)

LocalDeclarationSpan(n) == SpanNew(n.start, SpanOf(n.expression).end)

ReservedStatementSpan(n) ==
  SpanNew(n.start,
          IF n.expressions # <<>> THEN SpanOf(Last(n.expressions)).end
          ELSE IF n.body # <<>> THEN SpanOf(Last(n.body)).end
          ELSE LocAddStr(LocAddChar(n.start, "."), n.name))

\* A slip: no fallback to the keyword, an empty matcher spans nothing.
MatcherSpanNoKeyword(n) ==
  SpanNew(n.start,
          IF n.variants # <<>> THEN SpanOf(Last(n.variants)).end
          ELSE IF n.selectors # <<>> THEN SpanOf(Last(n.selectors)).end
          ELSE n.start)

MatcherSpan(n) ==
  SpanNew(n.start,
          IF n.variants # <<>> THEN SpanOf(Last(n.variants)).end
          ELSE IF n.selectors # <<>> THEN SpanOf(Last(n.selectors)).end
          ELSE LocAddStr(n.start, <<".", "m", "a", "t", "c", "h">>))

VariantSpan(n) ==
  SpanNew(IF n.keys # <<>> THEN SpanOf(n.keys[1]).start
          ELSE SpanOf(n.pattern).start,
          SpanOf(n.pattern).end)

SpanOf(n) ==
  CASE n.type = "Message" -> SpanOf(n.item)
    [] n.type \in WrapperTypes -> SpanOf(n.item)
    [] n.type = "Pattern" -> PatternSpan(n)
    [] n.type = "Text" -> SpanNew(n.start, LocAddStr(n.start, n.content))
    [] n.type = "Escape" -> EscapeSpan(n)
    [] n.type \in {"LiteralExpression", "VariableExpression",
                   "AnnotationExpression", "Variable", "Attribute", "Quoted",
                   "Markup", "QuotedPattern"} -> n.span
    [] n.type = "Identifier" -> IdentifierSpan(n)
    [] n.type = "Function" -> FunctionSpan(n)
    [] n.type = "FnOrMarkupOption" -> FnOrMarkupOptionSpan(n)
    [] n.type \in {"PrivateUseAnnotation", "ReservedAnnotation"} ->
         SigilAnnotationSpan(n)
    [] n.type = "Number" -> SpanNew(n.start, LocAddStr(n.start, n.raw))
    [] n.type = "ComplexMessage" -> ComplexMessageSpan(n)
    [] n.type = "InputDeclaration" -> InputDeclarationSpan(n)
    [] n.type = "LocalDeclaration" -> LocalDeclarationSpan(n)
    [] n.type = "ReservedStatement" -> ReservedStatementSpan(n)
    [] n.type = "Matcher" -> MatcherSpan(n)
    [] n.type = "Variant" -> VariantSpan(n)
    [] n.type = "Star" -> SpanNew(n.start, LocAddChar(n.start, "*"))

\* ------------------------------------------------------------------------
\* impl Number: the sub-spans and the slices of raw.

\* &self.raw[span.start.inner() as usize..span.end.inner() as usize]: the
\* index range is the span's own offsets; a range that is reversed or ends
\* past raw panics.
NumberSlice(n, span) ==
  LET lo == span.start
      hi == span.end
      ok == lo >= 0 /\ lo <= hi /\ hi <= Len(n.raw)
  IN [panic |-> ~ok, lo |-> lo, hi |-> hi,
      val |-> IF ok THEN SubSeq(n.raw, lo + 1, hi) ELSE <<>>]

IntegralStart(n) == IF n.is_negative THEN LocAddChar(n.start, "-") ELSE n.start

IntegralEnd(n) == LocAddLen(IntegralStart(n), n.integral_len)

IntegralSpan(n) == SpanNew(IntegralStart(n), IntegralEnd(n))

IntegralPart(n) == NumberSlice(n, IntegralSpan(n))

FractionalSpan(n) ==
  IF n.fractional_len = None THEN None
  ELSE LET start == LocAddChar(IntegralEnd(n), ".")
       IN Some(SpanNew(start, LocAddLen(start, n.fractional_len[1])))

FractionalPart(n) ==
  IF FractionalSpan(n) = None
  THEN [panic |-> FALSE, lo |-> 0, hi |-> 0, val |-> None]
  ELSE LET r == NumberSlice(n, FractionalSpan(n)[1])
       IN [r EXCEPT !.val = IF r.panic THEN None ELSE Some(r.val)]

\* A slip: a sign character is skipped whatever the sign.
ExponentSpanSignAlways(n) ==
  IF n.exponent_len = None THEN None
  ELSE LET len == n.exponent_len[1][2]
           s0 == IntegralEnd(n)
           s1 == IF n.fractional_len # None
                 THEN LocAddLen(LocAddChar(s0, "."), n.fractional_len[1])
                 ELSE s0
           s3 == LocAddChar(LocAddChar(s1, "e"), "-")
       IN Some(SpanNew(s3, LocAddLen(s3, len)))

ExponentSpan(n) ==
  IF n.exponent_len = None THEN None
  ELSE LET sign == n.exponent_len[1][1]
           len == n.exponent_len[1][2]
           s0 == IntegralEnd(n)
           s1 == IF n.fractional_len # None
                 THEN LocAddLen(LocAddChar(s0, "."), n.fractional_len[1])
                 ELSE s0
           s2 == LocAddChar(s1, "e")
           s3 == IF sign # "None" THEN LocAddChar(s2, "-") ELSE s2
       IN Some(SpanNew(s3, LocAddLen(s3, len)))

ExponentPart(n) ==
  IF ExponentSpan(n) = None
  THEN [panic |-> FALSE, lo |-> 0, hi |-> 0, val |-> None]
  ELSE LET r == NumberSlice(n, ExponentSpan(n)[1])
       IN [r EXCEPT !.val = IF r.panic THEN None
                            ELSE Some(<<n.exponent_len[1][1], r.val>>)]

\* ------------------------------------------------------------------------
\* The node catalog: the nodes each struct or enum holds, in the order of its
\* fields.

Fields(n) ==
  CASE n.type = "Message" -> <<n.item>>
    [] n.type \in WrapperTypes -> <<n.item>>
    [] n.type = "Pattern" -> n.parts
    [] n.type = "LiteralExpression" ->
         <<n.literal>> \o n.annotation \o n.attributes
    [] n.type = "VariableExpression" ->
         <<n.variable>> \o n.annotation \o n.attributes
    [] n.type = "AnnotationExpression" -> <<n.annotation>> \o n.attributes
    [] n.type = "Function" -> <<n.id>> \o n.options
    [] n.type = "FnOrMarkupOption" -> <<n.key, n.value>>
    [] n.type = "Attribute" -> <<n.key>> \o n.value
    [] n.type \in {"PrivateUseAnnotation", "ReservedAnnotation"} -> n.body
    [] n.type = "Quoted" -> n.parts
    [] n.type = "Markup" -> <<n.id>> \o n.options \o n.attributes
    [] n.type = "ComplexMessage" -> n.declarations \o <<n.body>>
    [] n.type = "InputDeclaration" -> <<n.expression>>
    [] n.type = "LocalDeclaration" -> <<n.variable, n.expression>>
    [] n.type = "ReservedStatement" -> n.body \o n.expressions
    [] n.type = "QuotedPattern" -> <<n.pattern>>
    [] n.type = "Matcher" -> n.selectors \o n.variants
    [] n.type = "Variant" -> n.keys \o <<n.pattern>>
    [] OTHER -> <<>>

\* ------------------------------------------------------------------------
\* impl Visitable.

\* #[visit(...)] of each ast_enum! enum: the callback its apply_visitor
\* invokes.
EnumVisitMethod(enum) ==
  CASE enum = "PatternPart" -> "visit_pattern_part"
    [] enum = "Expression" -> "visit_expression"
    [] enum = "Annotation" -> "visit_annotation"
    [] enum = "LiteralOrVariable" -> "visit_literal_or_variable"
    [] enum = "ReservedBodyPart" -> "visit_reserved_body_part"
    [] enum = "Literal" -> "visit_literal"
    [] enum = "QuotedPart" -> "visit_quoted_part"
    [] enum = "Declaration" -> "visit_declaration"
    [] enum = "ComplexMessageBody" -> "visit_complex_message_body"
    [] enum = "Key" -> "visit_key"

\* The Visit callback that apply_visitor of a node invokes.  Message has
\* none: its apply_visitor is that of its Pattern or ComplexMessage.
VisitMethod(n) ==
  CASE n.type \in WrapperTypes -> EnumVisitMethod(n.type)
    [] n.type = "Pattern" -> "visit_pattern"
    [] n.type = "Text" -> "visit_text"
    [] n.type = "Escape" -> "visit_escape"
    [] n.type = "LiteralExpression" -> "visit_literal_expression"
    [] n.type = "VariableExpression" -> "visit_variable_expression"
    [] n.type = "Variable" -> "visit_variable"
    [] n.type = "AnnotationExpression" -> "visit_annotation_expression"
    [] n.type = "Identifier" -> "visit_identifier"
    [] n.type = "Function" -> "visit_function"
    [] n.type = "FnOrMarkupOption" -> "visit_fn_or_markup_option"
    [] n.type = "Attribute" -> "visit_attribute"
    [] n.type = "PrivateUseAnnotation" -> "visit_private_use_annotation"
    [] n.type = "ReservedAnnotation" -> "visit_reserved_annotation"
    [] n.type = "Quoted" -> "visit_quoted"
    [] n.type = "Number" -> "visit_number"
    [] n.type = "Markup" -> "visit_markup"
    [] n.type = "ComplexMessage" -> "visit_complex_message"
    [] n.type = "InputDeclaration" -> "visit_input_declaration"
    [] n.type = "LocalDeclaration" -> "visit_local_declaration"
    [] n.type = "ReservedStatement" -> "visit_reserved_statement"
    [] n.type = "QuotedPattern" -> "visit_quoted_pattern"
    [] n.type = "Matcher" -> "visit_matcher"
    [] n.type = "Variant" -> "visit_variant"
    [] n.type = "Star" -> "visit_star"

\* A slip: the enum forwards apply_visitor to the variant it holds.
EnumApplyVisitorForwarding(n) == n.item

\* apply_visitor of an ast_enum! enum: visitor.$visit_method(self).
EnumApplyVisitor(n) == n

\* apply_visitor of Message: that of the Pattern or ComplexMessage it holds.
MessageApplyVisitor(n) == n.item

\* The node whose callback n.apply_visitor(visitor) invokes.
ApplyVisitor(n) ==
  IF n.type = "Message" THEN MessageApplyVisitor(n)
  ELSE IF n.type \in WrapperTypes THEN EnumApplyVisitor(n)
  ELSE n

\* apply_visitor_to_children of an ast_enum! enum: apply_visitor of the
\* variant it holds.
EnumChildren(n) == <<n.item>>

PatternChildren(n) == n.parts

\* A slip: the body visited before the declarations.
ComplexMessageChildrenBodyFirst(n) == <<n.body>> \o n.declarations

ComplexMessageChildren(n) == n.declarations \o <<n.body>>

ReservedStatementChildren(n) == n.body \o n.expressions

MatcherChildren(n) == n.selectors \o n.variants

\* The nodes apply_visitor_to_children of a struct or an ast_enum! enum calls
\* apply_visitor on, in the order of the calls.
NodeApplyVisitorToChildren(n) ==
  CASE n.type \in WrapperTypes -> EnumChildren(n)
    [] n.type = "Pattern" -> PatternChildren(n)
    [] n.type = "LiteralExpression" ->
         <<n.literal>> \o n.annotation \o n.attributes
    [] n.type = "VariableExpression" ->
         <<n.variable>> \o n.annotation \o n.attributes
    [] n.type = "AnnotationExpression" -> <<n.annotation>> \o n.attributes
    [] n.type = "Function" -> <<n.id>> \o n.options
    [] n.type = "FnOrMarkupOption" -> <<n.key, n.value>>
    [] n.type = "Attribute" -> <<n.key>> \o n.value
    [] n.type = "PrivateUseAnnotation" -> n.body
    [] n.type = "ReservedAnnotation" -> n.body
    [] n.type = "Quoted" -> n.parts
    [] n.type = "Markup" -> <<n.id>> \o n.options \o n.attributes
    [] n.type = "ComplexMessage" -> ComplexMessageChildren(n)
    [] n.type = "InputDeclaration" -> <<n.expression>>
    [] n.type = "LocalDeclaration" -> <<n.variable, n.expression>>
    [] n.type = "ReservedStatement" -> ReservedStatementChildren(n)
    [] n.type = "QuotedPattern" -> <<n.pattern>>
    [] n.type = "Matcher" -> MatcherChildren(n)
    [] n.type = "Variant" -> n.keys \o <<n.pattern>>
    [] OTHER -> <<>>

\* A slip: apply_visitor_to_children of Message is that of a leaf, visiting
\* nothing.
MessageApplyVisitorToChildrenOfLeaf(n) == n

\* apply_visitor_to_children of Message: that of the Pattern or
\* ComplexMessage it holds.
MessageApplyVisitorToChildren(n) == n.item

\* The node whose children n.apply_visitor_to_children(visitor) visits.
ApplyVisitorToChildren(n) ==
  IF n.type = "Message" THEN MessageApplyVisitorToChildren(n) ELSE n

\* ------------------------------------------------------------------------
\* The structs of the node catalog.  The parser that builds them is not part
\* of src/: every stored span and start below is laid out as the
\* MessageFormat 2 syntax of the node is written from its first character.

End(x) == SpanOf(x).end

\* The end of a list laid out from P: P itself when the list is empty.
SeqEnd(xs, P) == IF xs = <<>> THEN P ELSE End(Last(xs))

\* Every list of at most n elements laid out from P, one after the other,
\* gap characters apart.
RECURSIVE SeqsAt(_, _, _, _)
SeqsAt(ElemAt(_), P, gap, n) ==
  {<<>>} \cup
  (IF n = 0 THEN {}
   ELSE UNION {{<<x>> \o rest :
                  rest \in SeqsAt(ElemAt, End(x) + gap, gap, n - 1)} :
               x \in ElemAt(P)})

Singles(S) == {<<x>> : x \in S}

Wrap(enum, x) == [type |-> enum, item |-> x]

MkText(P, c) == [type |-> "Text", start |-> P, content |-> c]

MkEscape(P, c) == [type |-> "Escape", start |-> P, escaped_char |-> c]

MkIdentifier(P, ns, name) ==
  [type |-> "Identifier", start |-> P, namespace |-> ns, name |-> name]

\* $name
MkVariable(P, name) ==
  [type |-> "Variable", span |-> SpanNew(P, P + 1 + Len(name)), name |-> name]

DigitChars == <<"0", "1", "2", "3", "4", "5", "6", "7", "8", "9">>

\* k digits, no two neighbours alike: the digits from, from + 1, ...
Digits(k, from) == [i \in 1..k |-> DigitChars[((from + i - 1) % 10) + 1]]

SignChars(sign) ==
  CASE sign = "Plus" -> <<"+">> [] sign = "Minus" -> <<"-">> [] OTHER -> <<>>

\* [-]integral[.fractional][e[+|-]exponent]
MkNumber(P, neg, il, fl, ex) ==
  [type |-> "Number", start |-> P,
   raw |-> (IF neg THEN <<"-">> ELSE <<>>) \o Digits(il, 1)
           \o (IF fl # None THEN <<".">> \o Digits(fl[1], il + 1) ELSE <<>>)
           \o (IF ex # None
               THEN <<"e">> \o SignChars(ex[1][1]) \o Digits(ex[1][2], 7)
               ELSE <<>>),
   is_negative |-> neg, integral_len |-> il, fractional_len |-> fl,
   exponent_len |-> ex]

\* |parts|
MkQuoted(P, parts) ==
  [type |-> "Quoted", span |-> SpanNew(P, SeqEnd(parts, P + 1) + 1),
   parts |-> parts]

MkFnOrMarkupOption(key, value) ==
  [type |-> "FnOrMarkupOption", key |-> key, value |-> value]

\* :id option...
MkFunction(P, id, options) ==
  [type |-> "Function", start |-> P, id |-> id, options |-> options]

MkPrivateUseAnnotation(P, sigil, body) ==
  [type |-> "PrivateUseAnnotation", start |-> P, sigil |-> sigil,
   body |-> body]

MkReservedAnnotation(P, sigil, body) ==
  [type |-> "ReservedAnnotation", start |-> P, sigil |-> sigil, body |-> body]

\* @key or @key=value
MkAttribute(P, key, value) ==
  [type |-> "Attribute",
   span |-> SpanNew(P, IF value # None THEN End(value[1]) ELSE End(key)),
   key |-> key, value |-> value]

\* The end of the last of: a first child, an optional annotation, attributes.
TailEnd(first, annotation, attributes) ==
  IF attributes # <<>> THEN End(Last(attributes))
  ELSE IF annotation # None THEN End(annotation[1])
  ELSE End(first)

\* {literal annotation attribute...}
MkLiteralExpression(P, literal, annotation, attributes) ==
  [type |-> "LiteralExpression",
   span |-> SpanNew(P, TailEnd(literal, annotation, attributes) + 1),
   literal |-> literal, annotation |-> annotation, attributes |-> attributes]

MkVariableExpression(P, variable, annotation, attributes) ==
  [type |-> "VariableExpression",
   span |-> SpanNew(P, TailEnd(variable, annotation, attributes) + 1),
   variable |-> variable, annotation |-> annotation,
   attributes |-> attributes]

MkAnnotationExpression(P, annotation, attributes) ==
  [type |-> "AnnotationExpression",
   span |-> SpanNew(P, TailEnd(annotation, None, attributes) + 1),
   annotation |-> annotation, attributes |-> attributes]

\* {#id option... attribute...}, {#id /} or {/id}
MkMarkup(P, kind, id, options, attributes) ==
  [type |-> "Markup",
   span |-> SpanNew(P, (IF attributes # <<>> THEN End(Last(attributes))
                        ELSE IF options # <<>> THEN End(Last(options))
                        ELSE End(id))
                       + (IF kind = "Standalone" THEN 3 ELSE 1)),
   kind |-> kind, id |-> id, options |-> options, attributes |-> attributes]

MkPattern(parts) == [type |-> "Pattern", parts |-> parts]

\* {{pattern}}
MkQuotedPattern(P, pattern) ==
  [type |-> "QuotedPattern",
   span |-> SpanNew(P, SeqEnd(pattern.parts, P + 2) + 2),
   pattern |-> pattern]

MkStar(P) == [type |-> "Star", start |-> P]

MkVariant(keys, pattern) ==
  [type |-> "Variant", keys |-> keys, pattern |-> pattern]

MkMatcher(P, selectors, variants) ==
  [type |-> "Matcher", start |-> P, selectors |-> selectors,
   variants |-> variants]

MkInputDeclaration(P, expression) ==
  [type |-> "InputDeclaration", start |-> P, expression |-> expression]

MkLocalDeclaration(P, variable, expression) ==
  [type |-> "LocalDeclaration", start |-> P, variable |-> variable,
   expression |-> expression]

MkReservedStatement(P, name, body, expressions) ==
  [type |-> "ReservedStatement", start |-> P, name |-> name, body |-> body,
   expressions |-> expressions]

MkComplexMessage(declarations, body) ==
  [type |-> "ComplexMessage", declarations |-> declarations, body |-> body]

MkMessage(x) == [type |-> "Message", item |-> x]

\* ------------------------------------------------------------------------
\* The instances the model draws its trees from: every construct of the
\* grammar starting at an offset P, with every list empty, of one element
\* and of up to MaxParts elements.

TextAt(P) == {MkText(P, c) : c \in {<<"a">>, <<"a", "b">>}}

Text0(P) == MkText(P, <<"a">>)

EscapeAt(P) == {MkEscape(P, c) : c \in {"\\", "{"}}

QuotedPartAt(P) ==
  {Wrap("QuotedPart", Text0(P)), Wrap("QuotedPart", MkEscape(P, "|"))}

QuotedAt(P) ==
  {MkQuoted(P, ps) : ps \in SeqsAt(QuotedPartAt, P + 1, 0, MaxParts)}

Quoted0(P) == MkQuoted(P, <<Wrap("QuotedPart", Text0(P + 1))>>)

Number0(P) == MkNumber(P, FALSE, 1, None, None)

NumberInTreeAt(P) ==
  {Number0(P), MkNumber(P, TRUE, 1, Some(1), Some(<<"Minus", 1>>))}

LiteralAt(P) ==
  {Wrap("Literal", x) : x \in QuotedAt(P) \cup {Text0(P)} \cup NumberInTreeAt(P)}

Literal0(P) == Wrap("Literal", Text0(P))

Identifier0(P) == MkIdentifier(P, None, <<"f">>)

IdentifierAt(P) ==
  {Identifier0(P), MkIdentifier(P, Some(<<"n", "s">>), <<"f">>)}

Variable0(P) == MkVariable(P, <<"x">>)

LiteralOrVariableAt(P) ==
  {Wrap("LiteralOrVariable", x) :
     x \in {Literal0(P), Wrap("Literal", Number0(P)), Variable0(P)}}

\* key=value
OptionAt(P) ==
  UNION {{MkFnOrMarkupOption(k, v) : v \in LiteralOrVariableAt(End(k) + 1)} :
         k \in IdentifierAt(P)}

Option0At(P) ==
  {MkFnOrMarkupOption(Identifier0(P),
                      Wrap("LiteralOrVariable", Variable0(P + 2)))}

FunctionAt(P) ==
  {MkFunction(P, id, <<>>) : id \in IdentifierAt(P + 1)}
  \cup {MkFunction(P, Identifier0(P + 1), os) :
          os \in SeqsAt(Option0At, P + 3, 1, MaxParts)
                 \cup Singles(OptionAt(P + 3))}

Function0(P) == MkFunction(P, Identifier0(P + 1), <<>>)

ReservedBodyPartAt(P) ==
  {Wrap("ReservedBodyPart", x) : x \in {Text0(P), MkEscape(P, "\\"), Quoted0(P)}}

Body0At(P) == {Wrap("ReservedBodyPart", Quoted0(P))}

BodyAt(P) ==
  SeqsAt(Body0At, P, 0, MaxParts) \cup Singles(ReservedBodyPartAt(P))

PrivateUseAnnotationAt(P) ==
  {MkPrivateUseAnnotation(P, sigil, b) : sigil \in {"^", "&"}, b \in BodyAt(P + 1)}

ReservedAnnotationAt(P) ==
  {MkReservedAnnotation(P, "!", b) : b \in BodyAt(P + 1)}

AnnotationAt(P) ==
  {Wrap("Annotation", x) :
     x \in FunctionAt(P) \cup PrivateUseAnnotationAt(P)
           \cup ReservedAnnotationAt(P)}

Annotation0(P) == Wrap("Annotation", Function0(P))

AttributeAt(P) ==
  {MkAttribute(P, Identifier0(P + 1), None)}
  \cup {MkAttribute(P, Identifier0(P + 1), Some(v)) :
          v \in LiteralOrVariableAt(P + 3)}

Attribute0At(P) == {MkAttribute(P, Identifier0(P + 1), None)}

AttributesAt(P) ==
  SeqsAt(Attribute0At, P, 1, MaxParts) \cup Singles(AttributeAt(P))

ExpressionAt(P) ==
  {Wrap("Expression", x) :
     x \in {MkLiteralExpression(P, l, None, <<>>) : l \in LiteralAt(P + 1)}
       \cup {MkLiteralExpression(P, Literal0(P + 1), Some(Annotation0(P + 3)), as) :
               as \in AttributesAt(P + 6)}
       \cup {MkVariableExpression(P, Variable0(P + 1), Some(a), <<>>) :
               a \in AnnotationAt(P + 4)}
       \cup {MkVariableExpression(P, Variable0(P + 1), None, as) :
               as \in AttributesAt(P + 4)}
       \cup {MkAnnotationExpression(P, Annotation0(P + 1), as) :
               as \in AttributesAt(P + 4)}}

VariableExpression0(P) ==
  MkVariableExpression(P, Variable0(P + 1), None, <<>>)

Expression0(P) == Wrap("Expression", VariableExpression0(P))

Expression0At(P) == {Expression0(P)}

MarkupAt(P) ==
  {MkMarkup(P, k, Identifier0(P + 2), <<>>, <<>>) :
     k \in {"Open", "Standalone", "Close"}}
  \cup UNION {{MkMarkup(P, "Open", Identifier0(P + 2), os, as) :
                  as \in SeqsAt(Attribute0At, SeqEnd(os, P + 3) + 1, 1, 1)} :
               os \in SeqsAt(Option0At, P + 4, 1, MaxParts)}

PatternPartAt(P) ==
  {Wrap("PatternPart", x) :
     x \in TextAt(P) \cup EscapeAt(P) \cup ExpressionAt(P) \cup MarkupAt(P)}

PatternPart0At(P) ==
  {Wrap("PatternPart", x) : x \in {Text0(P), MkEscape(P, "{"), Expression0(P)}}

PatternAt(P) ==
  {MkPattern(ps) :
     ps \in SeqsAt(PatternPart0At, P, 0, MaxParts) \cup Singles(PatternPartAt(P))}


QuotedPatternAt(P) ==
  {MkQuotedPattern(P, MkPattern(ps)) :
     ps \in {<<>>, <<Wrap("PatternPart", Text0(P + 2))>>}}

QuotedPattern0(P) ==
  MkQuotedPattern(P, MkPattern(<<Wrap("PatternPart", Text0(P + 2))>>))

KeyAt(P) == {Wrap("Key", MkStar(P)), Wrap("Key", Literal0(P))}

\* key key {{pattern}}
VariantAt(P) ==
  UNION {{MkVariant(ks, q) : q \in QuotedPatternAt(SeqEnd(ks, P - 1) + 1)} :
         ks \in SeqsAt(KeyAt, P, 1, MaxParts)
                \cup {<<Wrap("Key", Wrap("Literal", Number0(P)))>>}}

Variant0At(P) == {MkVariant(<<Wrap("Key", MkStar(P))>>, QuotedPattern0(P + 2))}

\* .match selector... variant...
MatcherAt(P) ==
  UNION {{MkMatcher(P, ss, vs) :
            vs \in SeqsAt(Variant0At, SeqEnd(ss, P + 6) + 1, 1, MaxParts)} :
         ss \in SeqsAt(Expression0At, P + 7, 1, MaxParts)}
  \cup {MkMatcher(P, <<>>, <<v>>) : v \in VariantAt(P + 7)}

ComplexMessageBodyAt(P) ==
  {Wrap("ComplexMessageBody", x) : x \in QuotedPatternAt(P) \cup MatcherAt(P)}

ComplexMessageBody0(P) == Wrap("ComplexMessageBody", QuotedPattern0(P))

InputDeclaration0(P) == MkInputDeclaration(P, VariableExpression0(P + 7))

\* .input {$x ...}
InputDeclarationAt(P) ==
  {InputDeclaration0(P),
   MkInputDeclaration(P, MkVariableExpression(P + 7, Variable0(P + 8),
                                              Some(Annotation0(P + 11)), <<>>))}

\* .local $x = {...}
LocalDeclarationAt(P) ==
  {MkLocalDeclaration(P, Variable0(P + 7), e) :
     e \in {Expression0(P + 12),
            Wrap("Expression",
                 MkLiteralExpression(P + 12, Literal0(P + 13), None, <<>>))}}

\* .k body {...}...
ReservedStatementAt(P) ==
  UNION {{MkReservedStatement(P, <<"k">>, b, es) :
            es \in SeqsAt(Expression0At, SeqEnd(b, P + 2) + 1, 1, MaxParts)} :
         b \in SeqsAt(Body0At, P + 3, 0, MaxParts)}

DeclarationAt(P) ==
  {Wrap("Declaration", x) :
     x \in InputDeclarationAt(P) \cup LocalDeclarationAt(P)
           \cup ReservedStatementAt(P)}

Declaration0At(P) == {Wrap("Declaration", InputDeclaration0(P))}

DeclarationsAt(P) ==
  SeqsAt(Declaration0At, P, 1, MaxParts) \cup Singles(DeclarationAt(P))

ComplexMessageAt(P) ==
  {MkComplexMessage(ds, ComplexMessageBody0(SeqEnd(ds, P - 1) + 1)) :
     ds \in DeclarationsAt(P)}
  \cup UNION {{MkComplexMessage(ds, b) :
                  b \in ComplexMessageBodyAt(SeqEnd(ds, P - 1) + 1)} :
               ds \in SeqsAt(Declaration0At, P, 1, 1)}

\* Message::Simple and Message::Complex
MessageAt(P) == {MkMessage(x) : x \in PatternAt(P) \cup ComplexMessageAt(P)}

Messages == UNION {MessageAt(P) : P \in 0..MaxPos}

\* ------------------------------------------------------------------------
\* The state: one built tree, and the traversals that read it.  A node of
\* the tree is named by its path from the Message: the indices, in Fields, of
\* the nodes on the way down.

VARIABLES
  msg,      \* the Message the parser built
  pc,       \* per visitor: "idle", "running" or "done"
  entry,    \* per visitor: the call on the Message that started it
  stack,    \* per visitor: the apply_visitor_to_children calls in progress,
            \*   each the path of its node and the index of its next child
  trace,    \* per visitor: the callbacks invoked so far
  skipped,  \* per visitor: the nodes whose callback did not visit children
  spanned,  \* the last span() call: the node's path and the Span returned
  num,      \* the Number whose accessors are called
  out       \* per accessor of num: what its call returned, once called

vars == <<msg, pc, entry, stack, trace, skipped, spanned, num, out>>

SameNode(a, b) == a.type = b.type /\ a = b

FieldIndex(parent, child) ==
  CHOOSE k \in 1..Len(Fields(parent)) : SameNode(Fields(parent)[k], child)

RECURSIVE NodeAt(_, _)
NodeAt(n, path) ==
  IF path = <<>> THEN n ELSE NodeAt(Fields(n)[Head(path)], Tail(path))

\* A node reached from the node at path by one forwarding call: itself, or
\* the node it holds.
PathTo(n, path, t) ==
  IF SameNode(t, n) THEN path ELSE path \o <<FieldIndex(n, t)>>

\* visitor.visit_x(t): what the visitor records of the call.
Event(t, path) == [cb |-> VisitMethod(t), path |-> path, span |-> SpanOf(t)]

\* A slip: apply_visitor descends into the children by itself.
DescentAutomatic(t, tp, recurse) ==
  LET c == ApplyVisitorToChildren(t)
  IN <<[path |-> PathTo(t, tp, c), idx |-> 1]>>

\* What apply_visitor of the node t at path tp adds to the calls in progress:
\* nothing of its own; the loop over the children of t only when the callback
\* called t.apply_visitor_to_children.
Descent(t, tp, recurse) ==
  IF recurse
  THEN LET c == ApplyVisitorToChildren(t)
       IN <<[path |-> PathTo(t, tp, c), idx |-> 1]>>
  ELSE <<>>

\* A slip: a read that leaves a mark in the tree (the span of the message
\* kept in the Message once computed).
BorrowedMemoizing(m) == [type |-> m.type, item |-> m.item, span |-> SpanOf(m)]

\* The tree after a call that takes it as &self: the tree as it was.
Borrowed(m) == m

\* n.apply_visitor(visitor) for the node n at path, by visitor v: the
\* callback of n is invoked; it either calls t.apply_visitor_to_children or
\* returns without.
Call(v, n, path, recurse, rest) ==
  LET t == ApplyVisitor(n)
      tp == PathTo(n, path, t)
  IN /\ trace' = [trace EXCEPT ![v] = Append(@, Event(t, tp))]
     /\ stack' = [stack EXCEPT ![v] = Descent(t, tp, recurse) \o rest]
     /\ IF recurse
        THEN UNCHANGED skipped
        ELSE /\ Cardinality(skipped[v]) < MaxSkips
             /\ skipped' = [skipped EXCEPT ![v] = @ \cup {tp}]

\* msg.apply_visitor(visitor)
StartApplyVisitor(v) ==
  /\ pc[v] = "idle"
  /\ \E recurse \in BOOLEAN : Call(v, msg, <<>>, recurse, <<>>)
  /\ pc' = [pc EXCEPT ![v] = "running"]
  /\ entry' = [entry EXCEPT ![v] = "apply_visitor"]
  /\ msg' = Borrowed(msg)
  /\ UNCHANGED <<spanned, num, out>>

\* msg.apply_visitor_to_children(visitor)
StartApplyVisitorToChildren(v) ==
  /\ pc[v] = "idle"
  /\ LET c == ApplyVisitorToChildren(msg)
     IN stack' = [stack EXCEPT
                    ![v] = <<[path |-> PathTo(msg, <<>>, c), idx |-> 1]>>]
  /\ pc' = [pc EXCEPT ![v] = "running"]
  /\ entry' = [entry EXCEPT ![v] = "apply_visitor_to_children"]
  /\ msg' = Borrowed(msg)
  /\ UNCHANGED <<trace, skipped, spanned, num, out>>

\* One turn of the loop of apply_visitor_to_children: apply_visitor on the
\* next child.
VisitChild(v) ==
  /\ pc[v] = "running"
  /\ stack[v] # <<>>
  /\ LET f == Head(stack[v])
         n == NodeAt(msg, f.path)
         calls == NodeApplyVisitorToChildren(n)
     IN /\ f.idx <= Len(calls)
        /\ \E recurse \in BOOLEAN :
             Call(v, calls[f.idx], f.path \o <<FieldIndex(n, calls[f.idx])>>,
                  recurse,
                  <<[f EXCEPT !.idx = @ + 1]>> \o Tail(stack[v]))
  /\ msg' = Borrowed(msg)
  /\ UNCHANGED <<pc, entry, spanned, num, out>>

\* apply_visitor_to_children has visited its last child and returns.
Return(v) ==
  /\ pc[v] = "running"
  /\ stack[v] # <<>>
  /\ LET f == Head(stack[v])
     IN f.idx > Len(NodeApplyVisitorToChildren(NodeAt(msg, f.path)))
  /\ stack' = [stack EXCEPT ![v] = Tail(@)]
  /\ UNCHANGED <<msg, pc, entry, trace, skipped, spanned, num, out>>

\* The call on the Message returns.
Finish(v) ==
  /\ pc[v] = "running"
  /\ stack[v] = <<>>
  /\ pc' = [pc EXCEPT ![v] = "done"]
  /\ UNCHANGED <<msg, entry, stack, trace, skipped, spanned, num, out>>

NoNumber == MkNumber(0, FALSE, 0, None, None)

Accessors ==
  {"integral_span", "integral_part", "fractional_span", "fractional_part",
   "exponent_span", "exponent_part"}

Uncalled == [called |-> FALSE]

NoOut == [a \in Accessors |-> Uncalled]

NoSpan == [called |-> FALSE]

InitVisitors(V) ==
  /\ pc = [v \in V |-> "idle"]
  /\ entry = [v \in V |-> "none"]
  /\ stack = [v \in V |-> <<>>]
  /\ trace = [v \in V |-> <<>>]
  /\ skipped = [v \in V |-> {}]

Init ==
  /\ msg \in MessageAt(0)
  /\ InitVisitors({1})
  /\ spanned = NoSpan
  /\ num = NoNumber
  /\ out = NoOut

Next ==
  \/ \E v \in DOMAIN pc : StartApplyVisitor(v)
  \/ \E v \in DOMAIN pc : StartApplyVisitorToChildren(v)
  \/ \E v \in DOMAIN pc : VisitChild(v)
  \/ \E v \in DOMAIN pc : Return(v)
  \/ \E v \in DOMAIN pc : Finish(v)

Spec == Init /\ [][Next]_vars

\* Two traversals of one tree, each with a visitor of its own, their steps
\* interleaved in any order.
ConcMessages ==
  {MkMessage(MkPattern(ps)) : ps \in SeqsAt(PatternPart0At, 0, 0, 2)}
  \cup {MkMessage(MkComplexMessage(<<Wrap("Declaration", InputDeclaration0(0))>>,
                                   ComplexMessageBody0(10)))}

InitConc ==
  /\ msg \in ConcMessages
  /\ InitVisitors({1, 2})
  /\ spanned = NoSpan
  /\ num = NoNumber
  /\ out = NoOut

SpecConc == InitConc /\ [][Next]_vars

\* ------------------------------------------------------------------------
\* span() called on the nodes of a built tree.

RECURSIVE PathsOf(_, _)
PathsOf(n, path) ==
  {path} \cup UNION {PathsOf(Fields(n)[k], path \o <<k>>) :
                       k \in 1..Len(Fields(n))}

\* NodeAt(msg, path).span()
CallSpan(path) ==
  /\ spanned' = [called |-> TRUE, path |-> path,
                 val |-> SpanOf(NodeAt(msg, path))]
  /\ UNCHANGED <<msg, pc, entry, stack, trace, skipped, num, out>>

InitSpan ==
  /\ msg \in Messages
  /\ InitVisitors({})
  /\ spanned = NoSpan
  /\ num = NoNumber
  /\ out = NoOut

NextSpan == \E path \in PathsOf(msg, <<>>) : CallSpan(path)

SpecSpan == InitSpan /\ [][NextSpan]_vars

\* ------------------------------------------------------------------------
\* span() called on the Escapes of a pattern.  escaped_char is a char: the
\* characters the grammar lets be escaped, and characters wider than a byte.

EscapedChars == {"\\", "{", "|", "}"} \cup WideChars

EscapePartAt(P) ==
  {Wrap("PatternPart", MkEscape(P, c)) : c \in EscapedChars}

EscapeMessages ==
  UNION {{MkMessage(MkPattern(ps)) :
            ps \in SeqsAt(EscapePartAt, P, 0, MaxParts) \ {<<>>}} :
         P \in 0..MaxPos}

\* NodeAt(msg, path).span(), for an Escape.
CallEscapeSpan(path) ==
  /\ NodeAt(msg, path).type = "Escape"
  /\ CallSpan(path)

InitEscape ==
  /\ msg \in EscapeMessages
  /\ InitVisitors({})
  /\ spanned = NoSpan
  /\ num = NoNumber
  /\ out = NoOut

NextEscape == \E path \in PathsOf(msg, <<>>) : CallEscapeSpan(path)

SpecEscape == InitEscape /\ [][NextEscape]_vars

\* ------------------------------------------------------------------------
\* The accessors of Number called on a built Number.

ExponentSigns == {"Plus", "Minus", "None"}

Lens == {None} \cup {Some(k) : k \in 1..MaxDigits}

ExponentLens ==
  {None} \cup {Some(<<sign, k>>) : sign \in ExponentSigns, k \in 1..MaxDigits}

Numbers ==
  {MkNumber(P, neg, il, fl, ex) :
     P \in 0..MaxPos, neg \in BOOLEAN, il \in 1..MaxDigits, fl \in Lens,
     ex \in ExponentLens}

Returned(a, r) ==
  /\ out' = [out EXCEPT ![a] = [called |-> TRUE] @@ r]
  /\ UNCHANGED <<msg, pc, entry, stack, trace, skipped, spanned, num>>

CallIntegralSpan ==
  Returned("integral_span", [panic |-> FALSE, val |-> IntegralSpan(num)])

CallIntegralPart == Returned("integral_part", IntegralPart(num))

CallFractionalSpan ==
  Returned("fractional_span", [panic |-> FALSE, val |-> FractionalSpan(num)])

CallFractionalPart == Returned("fractional_part", FractionalPart(num))

CallExponentSpan ==
  Returned("exponent_span", [panic |-> FALSE, val |-> ExponentSpan(num)])

CallExponentPart == Returned("exponent_part", ExponentPart(num))

InitNumber ==
  /\ msg = MkMessage(MkPattern(<<>>))
  /\ InitVisitors({})
  /\ spanned = NoSpan
  /\ num \in Numbers
  /\ out = NoOut

NextNumber ==
  \/ CallIntegralSpan
  \/ CallIntegralPart
  \/ CallFractionalSpan
  \/ CallFractionalPart
  \/ CallExponentSpan
  \/ CallExponentPart

SpecNumber == InitNumber /\ [][NextNumber]_vars

\* ------------------------------------------------------------------------
\* What the claims are stated in.

IsPrefix(a, b) == Len(a) <= Len(b) /\ a = SubSeq(b, 1, Len(a))

IsStrictPrefix(a, b) == Len(a) < Len(b) /\ a = SubSeq(b, 1, Len(a))

TracePaths(v) == [i \in 1..Len(trace[v]) |-> trace[v][i].path]

\* The paths of the tree under n in pre-order, the fields of a node left to
\* right, without what lies under a node of S.
RECURSIVE Preorder(_, _, _), PreorderFrom(_, _, _, _)
Preorder(n, path, S) ==
  <<path>> \o (IF path \in S THEN <<>> ELSE PreorderFrom(n, path, S, 1))

PreorderFrom(n, path, S, k) ==
  IF k > Len(Fields(n)) THEN <<>>
  ELSE Preorder(Fields(n)[k], path \o <<k>>, S)
       \o PreorderFrom(n, path, S, k + 1)

\* Every node below the Message, which has no callback of its own.
NodesInOrder == Tail(Preorder(msg, <<>>, {}))

Count(seq, x) == Cardinality({i \in 1..Len(seq) : seq[i] = x})

\* C1: a traversal started by apply_visitor on the Message in which every
\* callback visits the children of its node invokes one callback per node of
\* the tree, exactly once each, a parent before its children and the
\* children in the order of the fields (source order): at every moment the
\* callbacks so far are the first nodes of the pre-order, and all of it when
\* the call returns.
VisitorCompleteness ==
  \A v \in DOMAIN pc :
    (entry[v] = "apply_visitor" /\ skipped[v] = {}) =>
      /\ IsPrefix(TracePaths(v), NodesInOrder)
      /\ \A p \in PathsOf(msg, <<>>) : Count(TracePaths(v), p) <= 1
      /\ pc[v] = "done" => TracePaths(v) = NodesInOrder

\* A complete traversal of a complex message with declarations and a matcher
\* with selectors and variants.
VisitorCompletenessWitness ==
  \E v \in DOMAIN pc :
    /\ pc[v] = "done" /\ entry[v] = "apply_visitor" /\ skipped[v] = {}
    /\ msg.item.type = "ComplexMessage"
    /\ msg.item.declarations # <<>>
    /\ msg.item.body.item.type = "Matcher"
    /\ msg.item.body.item.selectors # <<>>
    /\ msg.item.body.item.variants # <<>>

EnumPaths == {p \in PathsOf(msg, <<>>) : NodeAt(msg, p).type \in WrapperTypes}

\* C2 as stated: no callback is ever invoked with an ast_enum! enum, the
\* enums generate no visitor event of their own.
WrapperTransparency ==
  \A v \in DOMAIN pc : \A i \in 1..Len(trace[v]) :
    NodeAt(msg, trace[v][i].path).type \notin WrapperTypes

\* C2 amended: apply_visitor on an enum invokes the enum's own callback
\* (visit_pattern_part, visit_expression, ...) with the enum; it is
\* apply_visitor_to_children on the enum that invokes the callback of the
\* variant it holds (the next event, when the enum's callback visits its
\* children), and in a complete traversal every enum has one event.
WrapperOwnCallback ==
  \A v \in DOMAIN pc :
    /\ \A i \in 1..Len(trace[v]) :
         LET e == trace[v][i]
             w == NodeAt(msg, e.path)
         IN w.type \in WrapperTypes =>
              /\ e.cb = EnumVisitMethod(w.type)
              /\ (i < Len(trace[v]) /\ e.path \notin skipped[v]) =>
                   /\ trace[v][i + 1].path = e.path \o <<1>>
                   /\ trace[v][i + 1].cb = VisitMethod(w.item)
    /\ (pc[v] = "done" /\ entry[v] = "apply_visitor" /\ skipped[v] = {}) =>
         \A p \in EnumPaths : Count(TracePaths(v), p) = 1

\* visit_pattern_part is followed by visit_text for a PatternPart::Text.
WrapperOwnCallbackWitness ==
  \E v \in DOMAIN pc : \E i \in 1..Len(trace[v]) :
    /\ trace[v][i].cb = "visit_pattern_part"
    /\ i < Len(trace[v])
    /\ trace[v][i + 1].cb = "visit_text"
    /\ trace[v][i + 1].path = trace[v][i].path \o <<1>>

\* C9: apply_visitor never descends by itself.  No node below a node whose
\* callback returned without visiting children has a callback, and the rest
\* of the tree is visited in order: the callbacks are those of the pre-order
\* without what lies under the skipped nodes.
ConsumerControlledRecursion ==
  \A v \in DOMAIN pc :
    entry[v] = "apply_visitor" =>
      /\ \A i \in 1..Len(trace[v]) : \A p \in skipped[v] :
           ~IsStrictPrefix(p, trace[v][i].path)
      /\ IsPrefix(TracePaths(v), Tail(Preorder(msg, <<>>, skipped[v])))
      /\ pc[v] = "done" =>
           TracePaths(v) = Tail(Preorder(msg, <<>>, skipped[v]))

\* A skipped node that has children, and a later sibling of it visited.
ConsumerControlledRecursionWitness ==
  \E v \in DOMAIN pc : \E p \in skipped[v] :
    /\ pc[v] = "done"
    /\ Fields(NodeAt(msg, p)) # <<>>
    /\ \E i \in 1..Len(trace[v]) :
         LET q == trace[v][i].path
         IN /\ Len(q) = Len(p)
            /\ SubSeq(q, 1, Len(q) - 1) = SubSeq(p, 1, Len(p) - 1)
            /\ Last(q) > Last(p)

\* The node span() was last called on, and its children in visiting order.
SpannedNode == NodeAt(msg, spanned.path)

SpannedChildren == NodeApplyVisitorToChildren(SpannedNode)

\* The composites that store no span.
DerivedComposites ==
  {"Pattern", "Function", "FnOrMarkupOption", "PrivateUseAnnotation",
   "ReservedAnnotation", "ComplexMessage", "InputDeclaration",
   "LocalDeclaration", "ReservedStatement", "Matcher", "Variant"}

\* Those of them that store the start of their sigil or keyword.
StartComposites ==
  {"Function", "PrivateUseAnnotation", "ReservedAnnotation",
   "InputDeclaration", "LocalDeclaration", "ReservedStatement", "Matcher"}

StoredSpans ==
  {"LiteralExpression", "VariableExpression", "AnnotationExpression",
   "Variable", "Attribute", "Quoted", "Markup", "QuotedPattern"}

\* C5 as stated: the span of a composite with a derived span and at least
\* one child runs from the start of its first child to the end of its last.
ChildContainment ==
  (spanned.called /\ SpannedNode.type \in DerivedComposites
   /\ SpannedChildren # <<>>) =>
    /\ spanned.val.start = SpanOf(SpannedChildren[1]).start
    /\ spanned.val.end = SpanOf(Last(SpannedChildren)).end

\* C5 amended: the span of such a composite ends at the end of its last
\* child; it starts at the start of its first child when the composite
\* stores no start of its own (Pattern, FnOrMarkupOption, Variant,
\* ComplexMessage), and at its stored start, the position of its sigil or
\* keyword, when it does.
ChildContainmentAmended ==
  (spanned.called /\ SpannedNode.type \in DerivedComposites
   /\ SpannedChildren # <<>>) =>
    /\ spanned.val.end = SpanOf(Last(SpannedChildren)).end
    /\ spanned.val.start =
         IF SpannedNode.type \in StartComposites THEN SpannedNode.start
         ELSE SpanOf(SpannedChildren[1]).start

\* span() of a Function with two options, the last not the first child.
ChildContainmentWitness ==
  /\ spanned.called
  /\ SpannedNode.type = "Function"
  /\ Len(SpannedNode.options) >= 2
  /\ spanned.val.start < SpanOf(SpannedChildren[1]).start

\* What C6 asks of a tree: stored spans with start <= end, a stored start at
\* or before the first child, the children of a node in source order.
WellFormed(n) ==
  \A p \in PathsOf(n, <<>>) :
    LET m == NodeAt(n, p)
        kids == Fields(m)
    IN /\ m.type \in StoredSpans => m.span.start <= m.span.end
       /\ (m.type \in StartComposites /\ kids # <<>>) =>
            m.start <= SpanOf(kids[1]).start
       /\ \A k \in 1..(Len(kids) - 1) :
            SpanOf(kids[k]).end <= SpanOf(kids[k + 1]).start

\* C6: in such a tree the span of every node has start <= end.
SpanWellFormed ==
  (spanned.called /\ WellFormed(msg)) => spanned.val.start <= spanned.val.end

\* span() of a ComplexMessage with declarations, by the min/max rule.
SpanWellFormedWitness ==
  /\ spanned.called
  /\ WellFormed(msg)
  /\ SpannedNode.type = "ComplexMessage"
  /\ SpannedNode.declarations # <<>>
  /\ spanned.val.start < spanned.val.end

\* C7: a Matcher at P with neither selectors nor variants spans P..P+6, a
\* PrivateUseAnnotation or ReservedAnnotation at P with an empty body spans
\* P..P+1; with a child, the span ends where the last child present ends
\* (the last variant, else the last selector; the last body part).
EmptyCollectionFallback ==
  spanned.called =>
    LET n == SpannedNode
    IN /\ n.type = "Matcher" =>
            /\ spanned.val.start = n.start
            /\ spanned.val.end =
                 IF n.variants # <<>> THEN SpanOf(Last(n.variants)).end
                 ELSE IF n.selectors # <<>> THEN SpanOf(Last(n.selectors)).end
                 ELSE n.start + 6
       /\ n.type \in {"PrivateUseAnnotation", "ReservedAnnotation"} =>
            /\ spanned.val.start = n.start
            /\ spanned.val.end =
                 IF n.body # <<>> THEN SpanOf(Last(n.body)).end
                 ELSE n.start + 1

\* span() of an empty Matcher that is not at the start of the source.
EmptyCollectionFallbackWitness ==
  /\ spanned.called
  /\ SpannedNode.type = "Matcher"
  /\ SpannedNode.selectors = <<>> /\ SpannedNode.variants = <<>>
  /\ SpannedNode.start > 0
  /\ spanned.val = SpanNew(SpannedNode.start, SpannedNode.start + 6)

\* ------------------------------------------------------------------------
\* The parts of raw as the shape [-]integral[.fractional][e[+|-]exponent]
\* has them, counted from the first character of raw.

SignLen(n) == IF n.is_negative THEN 1 ELSE 0

RawIntegral(n) == SubSeq(n.raw, SignLen(n) + 1, SignLen(n) + n.integral_len)

FractionalLen(n) ==
  IF n.fractional_len = None THEN 0 ELSE 1 + n.fractional_len[1]

RawFractional(n) ==
  SubSeq(n.raw, SignLen(n) + n.integral_len + 2,
         SignLen(n) + n.integral_len + FractionalLen(n))

RawExponent(n) ==
  SubSeq(n.raw, Len(n.raw) - n.exponent_len[1][2] + 1, Len(n.raw))

Parts == {"integral_part", "fractional_part", "exponent_part"}

\* sign + integral + "." + fractional + marker + sign + exponent
Reassembled ==
  (IF num.is_negative THEN <<"-">> ELSE <<>>)
  \o out["integral_part"].val
  \o (IF out["fractional_part"].val = None THEN <<>>
      ELSE <<".">> \o out["fractional_part"].val[1])
  \o (IF out["exponent_part"].val = None THEN <<>>
      ELSE <<"e">> \o SignChars(out["exponent_part"].val[1][1])
           \o out["exponent_part"].val[1][2])

\* C3: for a Number at any start the part accessors return the integral,
\* the fractional and the exponent digits of raw, and put together again
\* they are raw.
NumberRoundTrip ==
  /\ out["integral_part"].called =>
       /\ ~out["integral_part"].panic
       /\ out["integral_part"].val = RawIntegral(num)
  /\ out["fractional_part"].called =>
       /\ ~out["fractional_part"].panic
       /\ out["fractional_part"].val =
            IF num.fractional_len = None THEN None
            ELSE Some(RawFractional(num))
  /\ out["exponent_part"].called =>
       /\ ~out["exponent_part"].panic
       /\ out["exponent_part"].val =
            IF num.exponent_len = None THEN None
            ELSE Some(<<num.exponent_len[1][1], RawExponent(num)>>)
  /\ (\A a \in Parts : out[a].called /\ ~out[a].panic) =>
       Reassembled = num.raw

\* C4: no accessor panics; the range that slices raw is within raw.
NumberTotality ==
  \A a \in Parts :
    out[a].called =>
      /\ ~out[a].panic
      /\ 0 <= out[a].lo /\ out[a].lo <= out[a].hi /\ out[a].hi <= Len(num.raw)

\* C8: the sub-spans of a Number at P.  S is P, one more when negative;
\* the integral span is S..S+integral_len; the fractional span starts one
\* past it; the exponent span starts past the marker, and past a sign only
\* when the sign is Plus or Minus.
NumberSubSpans ==
  LET S == num.start + SignLen(num)
      IE == S + num.integral_len
      FE == IE + FractionalLen(num)
  IN /\ out["integral_span"].called =>
          out["integral_span"].val = SpanNew(S, IE)
     /\ out["fractional_span"].called =>
          out["fractional_span"].val =
            IF num.fractional_len = None THEN None
            ELSE Some(SpanNew(IE + 1, IE + 1 + num.fractional_len[1]))
     /\ out["exponent_span"].called =>
          out["exponent_span"].val =
            IF num.exponent_len = None THEN None
            ELSE LET E == FE + 1
                          + (IF num.exponent_len[1][1] \in {"Plus", "Minus"}
                             THEN 1 ELSE 0)
                 IN Some(SpanNew(E, E + num.exponent_len[1][2]))

\* All three spans of a negative number with a fraction and an unsigned
\* exponent, not at the start of the source.
NumberSubSpansWitness ==
  /\ num.start > 0
  /\ num.is_negative
  /\ num.fractional_len # None
  /\ num.exponent_len # None
  /\ num.exponent_len[1][1] = "None"
  /\ out["integral_span"].called
  /\ out["fractional_span"].called
  /\ out["exponent_span"].called

\* The callbacks of visitor v run alone, with the choices it has made: the
\* nodes in order, without what lies under those it skipped, each with the
\* callback and the span() of the node.
RunAlone(v) ==
  LET all == Preorder(msg, <<>>, skipped[v])
      paths == IF entry[v] = "apply_visitor_to_children"
               THEN Tail(Tail(all)) ELSE Tail(all)
  IN [i \in 1..Len(paths) |-> Event(NodeAt(msg, paths[i]), paths[i])]

\* C10: with two traversals interleaved no step changes the tree, and each
\* visitor sees the callbacks and the spans it would see alone.
ConcurrentReadSafety ==
  /\ [][msg' = msg]_vars
  /\ [](\A v \in DOMAIN pc :
          /\ IsPrefix(trace[v], RunAlone(v))
          /\ pc[v] = "done" => trace[v] = RunAlone(v))

\* Both traversals under way at once, one ahead of the other.
ConcurrentReadSafetyWitness ==
  /\ DOMAIN pc = {1, 2}
  /\ pc[1] = "running" /\ pc[2] = "running"
  /\ Len(trace[1]) >= 3
  /\ Len(trace[2]) >= 1
  /\ Len(trace[2]) < Len(trace[1])
  /\ skipped[1] # skipped[2]

RootApplyVisitor(S) ==
  LET paths == Preorder(msg.item, <<1>>, S)
  IN [i \in 1..Len(paths) |-> Event(NodeAt(msg, paths[i]), paths[i])]

\* The callbacks of root.apply_visitor_to_children: those of apply_visitor
\* on each child of the root in turn, none for the root.
RootApplyVisitorToChildren(S) ==
  LET paths == PreorderFrom(msg.item, <<1>>, S, 1)
  IN [i \in 1..Len(paths) |-> Event(NodeAt(msg, paths[i]), paths[i])]

\* C12: the Message gets no callback of its own; apply_visitor on the
\* Message gives exactly the callbacks of apply_visitor on its Pattern or
\* ComplexMessage, visit_pattern / visit_complex_message first, and
\* apply_visitor_to_children on the Message gives exactly the callbacks of
\* apply_visitor_to_children on its Pattern or ComplexMessage, in which the
\* Pattern or ComplexMessage itself gets no callback.
MessageRootDispatch ==
  \A v \in DOMAIN pc :
    /\ \A i \in 1..Len(trace[v]) : trace[v][i].path # <<>>
    /\ entry[v] = "apply_visitor" =>
         /\ IsPrefix(trace[v], RootApplyVisitor(skipped[v]))
         /\ pc[v] = "done" => trace[v] = RootApplyVisitor(skipped[v])
         /\ trace[v] # <<>>
         /\ trace[v][1].path = <<1>>
         /\ trace[v][1].cb = IF msg.item.type = "Pattern"
                              THEN "visit_pattern"
                              ELSE "visit_complex_message"
    /\ entry[v] = "apply_visitor_to_children" =>
         /\ IsPrefix(trace[v], RootApplyVisitorToChildren(skipped[v]))
         /\ pc[v] = "done" =>
              trace[v] = RootApplyVisitorToChildren(skipped[v])
         /\ \A i \in 1..Len(trace[v]) :
              /\ trace[v][i].path # <<1>>
              /\ trace[v][i].cb \notin {"visit_pattern", "visit_complex_message"}
                 \/ Len(trace[v][i].path) > 1

\* apply_visitor_to_children on a complex message with declarations has
\* returned: the first callback was that of the first declaration.
MessageRootDispatchWitness ==
  \E v \in DOMAIN pc :
    /\ pc[v] = "done"
    /\ entry[v] = "apply_visitor_to_children"
    /\ msg.item.type = "ComplexMessage"
    /\ msg.item.declarations # <<>>
    /\ trace[v] # <<>>
    /\ trace[v][1].cb = "visit_declaration"
    /\ trace[v][1].path = <<1, 1>>

====
